---- MODULE Spec2Model ----
(***************************************************************************)
(* Epileptic-Seizure-Prediction-System: the single-page upload form        *)
(* (src/src/App.tsx), its API client (src/src/utils/api.ts) and the        *)
(* ingestion pipeline behind POST /predict.  The form and the client are   *)
(* translated from their code.  The pipeline's code (backend/) is not part *)
(* of the sources at hand; it is modelled from spec.md sections 3-7.       *)
(*                                                                         *)
(* Numbers: a probability or score p in [0,1] is the integer 10*p, a       *)
(* progress of q percent is the integer 10*q (12.5 % is 125).              *)
(* An optional value (a field that may be undefined) is a sequence of      *)
(* length 0 or 1.                                                          *)
(***************************************************************************)
EXTENDS Integers, Sequences, FiniteSets, TLC

(* ------------------------------------------------------------------ *)
(* Bounds of the model                                                 *)
(* ------------------------------------------------------------------ *)

\* longest upload list of one modality that the model explores
MaxFiles == 2

(* ------------------------------------------------------------------ *)
(* Program constants                                                   *)
(* ------------------------------------------------------------------ *)

Modalities == {"mri", "fmri", "eeg"}

Tabs == {"upload", "config", "process", "results"}

\* const stages = [...]: the 8 stage labels, in their order
stages ==
  << "Initializing 3D CNN model...",
     "Loading MRI structural data...",
     "Processing fMRI functional data...",
     "Analyzing EEG temporal signals...",
     "Performing multi-modal data fusion...",
     "Extracting 3D CNN features...",
     "Running seizure classification...",
     "Generating prediction results..." >>

\* result.seizure_probability > 0.7, in tenths
RiskThreshold == 7

\* "more than 10x the other"
ImbalanceFactor == 10

\* values Math.random() is drawn from, in tenths
Scores == {2, 8}

\* values the prediction stage answers with, in tenths of [0,1]
Probabilities == {7, 9}

(* ------------------------------------------------------------------ *)
(* Files                                                               *)
(* ------------------------------------------------------------------ *)

\* A File the user can pick: its name, its declared extension, the format
\* its leading bytes show, the state of its payload, and what a decoder
\* would read from it (in-plane resolution of a volume, duration in s).
MkFile(n, e, mg, p, r, d) ==
  [name |-> n, ext |-> e, magic |-> mg, payload |-> p, res |-> r, dur |-> d]

\* the files on offer in each of the three file inputs
Catalogue(type) ==
  CASE type = "eeg" ->
         { MkFile("rec.edf", "edf", "edf", "ok", 0, 20),
           MkFile("long.bdf", "bdf", "bdf", "ok", 0, 2001),
           MkFile("rec.cnt", "cnt", "cnt", "ok", 0, 20) }
    [] type = "mri" ->
         { MkFile("t1.nii", "nii", "nii", "ok", 256, 1),
           MkFile("t1_lo.nii.gz", "nii.gz", "nii.gz", "ok", 128, 1),
           MkFile("t1.dcm", "dcm", "dcm", "ok", 256, 1) }
    [] type = "fmri" ->
         { MkFile("bold.nii", "nii", "nii", "ok", 256, 200),
           MkFile("bold_lo.nii.gz", "nii.gz", "nii.gz", "ok", 128, 201),
           MkFile("bold_cut.nii", "nii", "nii", "truncated", 256, 200) }

\* the well-formed, mutually consistent recording of one patient
Reference == [eeg |-> MkFile("rec.edf", "edf", "edf", "ok", 0, 20),
              mri |-> MkFile("t1.nii", "nii", "nii", "ok", 256, 1),
              fmri |-> MkFile("bold.nii", "nii", "nii", "ok", 256, 200)]

\* What the user has at hand in a session: one file for each modality, or
\* the reference recording with every file on offer for one modality.
Disks ==
  {[m \in Modalities |-> {pick[m]}] : pick \in [eeg : Catalogue("eeg"),
                                                 mri : Catalogue("mri"),
                                                 fmri : Catalogue("fmri")]}
  \cup
  {[m \in Modalities |-> IF m = rich THEN Catalogue(m) ELSE {Reference[m]}] :
     rich \in Modalities}

\* handleFileUpload's map: File -> UploadedFile (size and type, display
\* strings copied from the File, are left out)
MkUploadedFile(file) ==
  [name |-> file.name, status |-> "uploaded", file |-> file]

(* ------------------------------------------------------------------ *)
(* The ingestion pipeline behind POST /predict (spec.md 3-7)           *)
(* ------------------------------------------------------------------ *)

\* EEG in {edf, bdf, csv}; MRI/fMRI in {nii, nii.gz}
Allowed(modality) ==
  IF modality = "eeg" THEN {"edf", "bdf", "csv"} ELSE {"nii", "nii.gz"}

\* 4.1 step 1: extension / magic-byte check
FormatOk(modality, file) ==
  file.ext \in Allowed(modality) /\ file.magic = file.ext

\* 4.1 steps 1-3 for one modality: the first check that fails names the kind
Validate(modality, file) ==
  IF ~FormatOk(modality, file) THEN "FormatMismatch"
  ELSE IF file.payload = "truncated" THEN "CorruptPayload"
  ELSE IF file.payload = "empty" \/ file.payload = "size" THEN "SizeMismatch"
  ELSE "Valid"

ErrorKinds == {"FormatMismatch", "CorruptPayload", "SizeMismatch", "Timeout"}

AllPending == [m \in Modalities |-> "pending"]

AllDecoded(out) == \A m \in Modalities : out[m] = "Valid"

\* MRI and fMRI must share the in-plane resolution (tolerance 0 %)
SpatialOk(files) == files.mri.res = files.fmri.res

\* mutant of Imbalanced: ten times or more
Imbalanced_AtLeast(a, b) == a >= ImbalanceFactor * b \/ b >= ImbalanceFactor * a

\* one duration is more than 10x the other
Imbalanced(a, b) == a > ImbalanceFactor * b \/ b > ImbalanceFactor * a

\* mutant of Join: the cross-check of the resolutions is left out
Join_NoCrossCheck(out, files) ==
  IF ~AllDecoded(out)
    THEN [kind |-> "error", modality |-> out, cross |-> {}, warnings |-> {}]
  ELSE [kind |-> "sample", modality |-> out, cross |-> {},
        warnings |-> IF files.fmri.dur > ImbalanceFactor * files.eeg.dur
                        \/ files.eeg.dur > ImbalanceFactor * files.fmri.dur
                       THEN {"ModalityImbalance"} ELSE {}]

\* the result of ingest once the three outcomes are joined: a sample
\* (possibly with warnings) or an error report with every modality's outcome
Join(out, files) ==
  IF ~AllDecoded(out)
    THEN [kind |-> "error", modality |-> out, cross |-> {}, warnings |-> {}]
  ELSE IF ~SpatialOk(files)
    THEN [kind |-> "error", modality |-> out, cross |-> {"SpatialMismatch"},
          warnings |-> {}]
  ELSE [kind |-> "sample", modality |-> out, cross |-> {},
        warnings |-> IF Imbalanced(files.fmri.dur, files.eeg.dur)
                       THEN {"ModalityImbalance"} ELSE {}]

NoIngest == [kind |-> "none", modality |-> AllPending, cross |-> {}, warnings |-> {}]

\* the error report as it is put on the wire
Report(ing) == [modality |-> ing.modality, cross |-> ing.cross]

(* ------------------------------------------------------------------ *)
(* PredictionResponse (api.ts)                                         *)
(* ------------------------------------------------------------------ *)

MkPrediction(p) == [seizure_probability |-> <<p>>, seizure_type |-> "Focal Seizure"]

\* {prediction: {...}}
PredictionBody(p) == [prediction |-> <<MkPrediction(p)>>, error |-> <<>>]

\* {error: ...}
ErrorBody(report) == [prediction |-> <<>>, error |-> <<report>>]

EmptyBody == [prediction |-> <<>>, error |-> <<>>]

\* an error string that is no report of the pipeline
OtherError == [modality |-> [m \in Modalities |-> "Unknown"], cross |-> {}]

\* the other shapes the type admits: both fields, neither, and a
\* prediction without seizure_probability
OtherBodies ==
  { [prediction |-> <<MkPrediction(9)>>, error |-> <<OtherError>>],
    EmptyBody,
    [prediction |-> <<[seizure_probability |-> <<>>, seizure_type |-> "Focal Seizure"]>>,
     error |-> <<>>] }

NoResponse == [kind |-> "none", body |-> EmptyBody]

VARIABLES
  disk,              \* the files the user can pick in the file inputs
  activeTab,         \* useState('upload')
  uploadedFiles,     \* useState({mri: [], fmri: [], eeg: []})
  processingStatus,  \* useState({stage, progress, status})
  results,           \* useState<ClassificationResult[]>([])
  modelConfig,       \* useState<ModelConfig>({layers: 5, ...})
  alert,             \* the window.alert on screen (modal: it blocks the page)
  pc,                \* where the one simulateProcessing call stands
  i,                 \* its loop variable
  closure,           \* the first entries of the uploadedFiles its closure holds
  sent,              \* the POST /predict requests sent so far
  request,           \* the FormData of the request in flight
  timer,             \* whether predictSeizure's timeout timer is pending
  response,          \* how the predictSeizure call settled
  outcome,           \* pipeline: each modality's validation outcome
  ingest             \* pipeline: the joined result

vars == <<disk, activeTab, uploadedFiles, processingStatus, results, modelConfig,
          alert, pc, i, closure, sent, request, timer, response, outcome, ingest>>

uiVars == <<activeTab, uploadedFiles, processingStatus, results, modelConfig, alert>>
runVars == <<disk, pc, i, closure>>
netVars == <<sent, request, timer, response>>
backendVars == <<outcome, ingest>>

NoAlert == [text |-> "", detail |-> <<>>]

NoFiles == [m \in Modalities |-> <<>>]

\* the initial modelConfig; learningRate 0.001 is counted in thousandths
DefaultConfig ==
  [layers |-> 5, filters |-> 32, kernelSize |-> 3, learningRate |-> 1,
   batchSize |-> 16, fusionMethod |-> "early"]

\* the options of the CNN Layers select that the model lets the user pick
\* (of 3, 5, 7 and 9)
LayerOptions == {5, 7}

Init ==
  /\ disk \in Disks
  /\ activeTab = "upload"
  /\ uploadedFiles = NoFiles
  /\ processingStatus = [stage |-> "Ready to process", progress |-> 0, status |-> "idle"]
  /\ results = <<>>
  /\ modelConfig = DefaultConfig
  /\ alert = NoAlert
  /\ pc = "idle"
  /\ i = 0
  /\ closure = NoFiles
  /\ sent = 0
  /\ request = <<>>
  /\ timer = FALSE
  /\ response = NoResponse
  /\ outcome = AllPending
  /\ ingest = NoIngest

(* ------------------------------------------------------------------ *)
(* App.tsx: tabs and upload lists                                      *)
(* ------------------------------------------------------------------ *)

\* onClick={() => setActiveTab(tab.id)} and the "proceed" buttons
setActiveTab ==
  /\ alert = NoAlert
  /\ \E tab \in Tabs :
       /\ tab # activeTab
       /\ activeTab' = tab
  /\ UNCHANGED <<uploadedFiles, processingStatus, results, modelConfig, alert>>
  /\ UNCHANGED <<runVars, netVars, backendVars>>

\* the FileLists a file input hands over: one or two files
FileLists(type) ==
  {<<f>> : f \in disk[type]} \cup {<<f, g>> : f \in disk[type], g \in disk[type]}

\* mutant of AppendFiles: [...newFiles, ...prev[type]]
AppendFiles_Front(prev, files) ==
  [k \in 1..Len(files) |-> MkUploadedFile(files[k])] \o prev

\* [...prev[type], ...newFiles]
AppendFiles(prev, files) ==
  prev \o [k \in 1..Len(files) |-> MkUploadedFile(files[k])]

\* mutant of RemoveAt: the last entry is dropped, whatever the index
RemoveAt_Last(list, index) == SubSeq(list, 1, Len(list) - 1)

\* prev[type].filter((_, i) => i !== index), index counted from 0
RemoveAt(list, index) ==
  [k \in 1..(Len(list) - 1) |-> IF k <= index THEN list[k] ELSE list[k + 1]]

\* handleFileUpload(type, files); the inputs are on the upload tab
handleFileUpload ==
  /\ alert = NoAlert
  /\ activeTab = "upload"
  /\ \E type \in Modalities :
       \/ \* if (!files) return;
          UNCHANGED uploadedFiles
       \/ \E files \in FileLists(type) :
            /\ Len(uploadedFiles[type]) + Len(files) <= MaxFiles
            /\ uploadedFiles' =
                 [uploadedFiles EXCEPT ![type] = AppendFiles(@, files)]
  /\ UNCHANGED <<activeTab, processingStatus, results, modelConfig, alert>>
  /\ UNCHANGED <<runVars, netVars, backendVars>>

\* removeFile(type, index): the x button of a listed file
removeFile ==
  /\ alert = NoAlert
  /\ activeTab = "upload"
  /\ \E type \in Modalities :
       \E index \in 0..(Len(uploadedFiles[type]) - 1) :
         uploadedFiles' = [uploadedFiles EXCEPT ![type] = RemoveAt(@, index)]
  /\ UNCHANGED <<activeTab, processingStatus, results, modelConfig, alert>>
  /\ UNCHANGED <<runVars, netVars, backendVars>>

\* onChange of the CNN Layers select on the configuration tab:
\* setModelConfig(prev => ({...prev, layers: parseInt(e.target.value)})).
\* The other five selects work the same way; the model leaves them at
\* their initial values.
setModelConfig ==
  /\ alert = NoAlert
  /\ activeTab = "config"
  /\ \E layers \in LayerOptions :
       /\ layers # modelConfig.layers
       /\ modelConfig' = [modelConfig EXCEPT !.layers = layers]
  /\ UNCHANGED <<activeTab, uploadedFiles, processingStatus, results, alert>>
  /\ UNCHANGED <<runVars, netVars, backendVars>>

\* mutant of hasRequiredFiles: one non-empty list is enough
hasRequiredFiles_Any ==
  \/ Len(uploadedFiles.mri) > 0
  \/ Len(uploadedFiles.fmri) > 0
  \/ Len(uploadedFiles.eeg) > 0

hasRequiredFiles ==
  /\ Len(uploadedFiles.mri) > 0
  /\ Len(uploadedFiles.fmri) > 0
  /\ Len(uploadedFiles.eeg) > 0

(* ------------------------------------------------------------------ *)
(* App.tsx: simulateProcessing                                         *)
(* ------------------------------------------------------------------ *)

\* mutant of StageStatus: progress i / stages.length
StageStatus_FromZero(k) ==
  [stage |-> stages[k + 1],
   progress |-> (k * 1000) \div Len(stages),
   status |-> "processing"]

\* the status the loop sets for stage number k (k = 0..7)
StageStatus(k) ==
  [stage |-> stages[k + 1],
   progress |-> ((k + 1) * 1000) \div Len(stages),
   status |-> "processing"]

\* mutant of ErrorStatus: a failure puts the status back to 'idle'
ErrorStatus_Idle == [stage |-> "Error occurred", progress |-> 0, status |-> "idle"]

ErrorStatus == [stage |-> "Error occurred", progress |-> 0, status |-> "error"]

MissingStatus == [stage |-> "Error: Missing files", progress |-> 0, status |-> "error"]

\* mutant of CompleteStatus: the status is left at the last stage
CompleteStatus_Stale ==
  [stage |-> "Analysis Complete", progress |-> 1000, status |-> "processing"]

CompleteStatus == [stage |-> "Analysis Complete", progress |-> 1000, status |-> "completed"]

\* alert('Please upload all required files (MRI, fMRI, and EEG)')
UploadAlert ==
  [text |-> "Please upload all required files (MRI, fMRI, and EEG)", detail |-> <<>>]

\* mutant of ErrorAlert: a fixed message, the response's error left out
ErrorAlert_Generic(error) == [text |-> "Prediction failed: ", detail |-> <<>>]

\* alert('Prediction failed: ' + response.error)
ErrorAlert(error) == [text |-> "Prediction failed: ", detail |-> error]

\* alert('Prediction failed: Invalid response from backend.')
InvalidAlert ==
  [text |-> "Prediction failed: Invalid response from backend.", detail |-> <<>>]

\* alert('Prediction failed: ' + error) for a thrown error
ThrownAlert(message) == [text |-> "Prediction failed: " \o message, detail |-> <<>>]

\* mutant of FirstOf: the entry added last is read
FirstOf_Last(list) == IF Len(list) > 0 THEN <<list[Len(list)]>> ELSE <<>>

\* what the closure's uploadedFiles.x[0]?.file reads
FirstOf(list) == IF Len(list) > 0 THEN <<list[1]>> ELSE <<>>

\* mutant of HasError: if (response.error === true), never so for a report
HasError_Strict(body) == FALSE

\* if (response.error)
HasError(body) == body.error # <<>>

\* mutant of HasProbability: only !result is tested
HasProbability_Loose(body) == body.prediction # <<>>

\* !(!result || typeof result.seizure_probability === 'undefined')
HasProbability(body) ==
  /\ body.prediction # <<>>
  /\ body.prediction[1].seizure_probability # <<>>

\* result.seizure_probability > 0.7 ? 'Seizure Risk' : 'Normal'
Label(probability) ==
  IF probability # <<>> /\ probability[1] > RiskThreshold
    THEN "Seizure Risk" ELSE "Normal"

\* the ClassificationResult built from the backend's prediction and three
\* draws of Math.random(); timestamp, a display string of the wall clock,
\* is left out
MkResult(result, r1, r2, r3) ==
  [prediction |-> Label(result.seizure_probability),
   confidence |-> result.seizure_probability,
   details |-> [mriScore |-> r1, fmriScore |-> r2, eegScore |-> r3]]

\* mutant of Fail: the catch block starts the request over
Fail_Retry(message, kind) ==
  /\ processingStatus' = ErrorStatus
  /\ alert' = ThrownAlert(message)
  /\ pc' = "import"
  /\ response' = [kind |-> kind, body |-> EmptyBody]
  /\ UNCHANGED <<disk, activeTab, uploadedFiles, results, modelConfig, i, closure>>

\* mutant of Fail: the catch block also shows the results tab
Fail_ShowResults(message, kind) ==
  /\ processingStatus' = ErrorStatus
  /\ alert' = ThrownAlert(message)
  /\ pc' = "done"
  /\ response' = [kind |-> kind, body |-> EmptyBody]
  /\ activeTab' = "results"
  /\ UNCHANGED <<disk, uploadedFiles, results, modelConfig, i, closure>>

\* the catch blocks: status 'error' and the alert
Fail(message, kind) ==
  /\ processingStatus' = ErrorStatus
  /\ alert' = ThrownAlert(message)
  /\ pc' = "done"
  /\ response' = [kind |-> kind, body |-> EmptyBody]
  /\ UNCHANGED <<disk, activeTab, uploadedFiles, results, modelConfig, i, closure>>

\* onClick={simulateProcessing}: the button is on the process tab while
\* the status is 'idle'; the call runs up to its first await
simulateProcessing ==
  /\ alert = NoAlert
  /\ activeTab = "process"
  /\ processingStatus.status = "idle"
  /\ UNCHANGED modelConfig
  /\ IF ~hasRequiredFiles
       THEN /\ alert' = UploadAlert
            /\ UNCHANGED <<activeTab, uploadedFiles, processingStatus, results>>
            /\ UNCHANGED runVars
       ELSE /\ UNCHANGED disk
            /\ processingStatus' = StageStatus(0)
            /\ closure' = [m \in Modalities |-> FirstOf(uploadedFiles[m])]
            /\ i' = 0
            /\ pc' = "stage"
            /\ UNCHANGED <<activeTab, uploadedFiles, results, alert>>
  /\ UNCHANGED <<netVars, backendVars>>

\* the 500 ms timer of the loop fires: the next stage, or past the loop the
\* files are read and the import is awaited
stageTimer ==
  /\ pc = "stage"
  /\ i' = i + 1
  /\ IF i + 1 < Len(stages)
       THEN /\ processingStatus' = StageStatus(i + 1)
            /\ UNCHANGED pc
       ELSE IF \E m \in Modalities : closure[m] = <<>>
         THEN /\ processingStatus' = MissingStatus
              /\ pc' = "done"
         ELSE /\ pc' = "import"
              /\ UNCHANGED processingStatus
  /\ UNCHANGED <<disk, activeTab, uploadedFiles, results, modelConfig, alert, closure>>
  /\ UNCHANGED <<netVars, backendVars>>

(* ------------------------------------------------------------------ *)
(* api.ts: predictSeizure                                              *)
(* ------------------------------------------------------------------ *)

\* formData.append('eeg', ...), ('mri', ...), ('fmri', ...)
FormData(files) ==
  [eeg |-> files.eeg[1].file, mri |-> files.mri[1].file, fmri |-> files.fmri[1].file]

\* import('./utils/api') resolves and predictSeizure runs up to await fetch:
\* the timer is set and the request is sent
importResolves ==
  /\ pc = "import"
  /\ request' = <<FormData(closure)>>
  /\ sent' = sent + 1
  /\ timer' = TRUE
  /\ pc' = "fetch"
  /\ UNCHANGED <<uiVars, disk, i, closure, response, backendVars>>

\* import('./utils/api') rejects: the inner catch
importRejects ==
  /\ pc = "import"
  /\ Fail("TypeError: Failed to fetch dynamically imported module", "import_error")
  /\ UNCHANGED <<sent, request, timer, backendVars>>

\* the request is over: the pipeline holds nothing of it any longer
Release ==
  /\ outcome' = AllPending
  /\ ingest' = NoIngest

\* fetch resolves with response.ok: clearTimeout, then response.json() is awaited
Headers(body) ==
  /\ pc = "fetch"
  /\ timer' = FALSE
  /\ response' = [kind |-> "headers", body |-> body]
  /\ pc' = "json"
  /\ Release
  /\ UNCHANGED <<uiVars, disk, i, closure, sent, request>>

\* the pipeline's answer arrives with a 2xx status
fetchResolves ==
  /\ ingest.kind # "none"
  /\ IF ingest.kind = "sample"
       THEN \E p \in Probabilities : Headers(PredictionBody(p))
       ELSE Headers(ErrorBody(Report(ingest)))

\* a 2xx answer of another shape of PredictionResponse arrives
fetchResolvesOther ==
  \E body \in OtherBodies : Headers(body)

\* fetch resolves with !response.ok: throw, catch, rethrow
fetchNotOk ==
  /\ pc = "fetch"
  /\ timer' = FALSE
  /\ Fail("Error: HTTP error! status: 500", "http_error")
  /\ Release
  /\ UNCHANGED <<sent, request>>

\* fetch rejects (network failure): catch, rethrow
fetchRejects ==
  /\ pc = "fetch"
  /\ timer' = FALSE
  /\ Fail("TypeError: Failed to fetch", "network_error")
  /\ Release
  /\ UNCHANGED <<sent, request>>

\* the 5-minute timer fires: controller.abort(), fetch rejects with AbortError
timeoutFires ==
  /\ pc = "fetch"
  /\ timer
  /\ timer' = FALSE
  /\ Fail("Error: Request timed out after 5 minutes. The processing is taking too long.",
          "timeout")
  /\ Release
  /\ UNCHANGED <<sent, request>>

\* response.json() rejects: catch, rethrow
jsonRejects ==
  /\ pc = "json"
  /\ Fail("SyntaxError: Unexpected end of JSON input", "parse_error")
  /\ UNCHANGED <<sent, request, timer, backendVars>>

\* response.json() resolves: simulateProcessing goes on with the response
jsonResolves ==
  /\ pc = "json"
  /\ LET body == response.body IN
       /\ response' = [kind |-> "json", body |-> body]
       /\ pc' = "done"
       /\ IF HasError(body)
            THEN /\ processingStatus' = ErrorStatus
                 /\ alert' = ErrorAlert(body.error)
                 /\ UNCHANGED <<activeTab, results>>
          ELSE IF ~HasProbability(body)
            THEN /\ processingStatus' = ErrorStatus
                 /\ alert' = InvalidAlert
                 /\ UNCHANGED <<activeTab, results>>
          ELSE /\ \E r1 \in Scores, r2 \in Scores, r3 \in Scores :
                    results' = <<MkResult(body.prediction[1], r1, r2, r3)>>
               /\ processingStatus' = CompleteStatus
               /\ activeTab' = "results"
               /\ UNCHANGED alert
  /\ UNCHANGED <<disk, uploadedFiles, modelConfig, i, closure, sent, request, timer,
               backendVars>>

(* ------------------------------------------------------------------ *)
(* The pipeline at work on the request (spec.md 4.1, 5)                *)
(* ------------------------------------------------------------------ *)

\* one modality is validated and decoded, whatever the others' outcomes
validate ==
  /\ pc = "fetch"
  /\ \E m \in Modalities :
       /\ outcome[m] = "pending"
       /\ outcome' = [outcome EXCEPT ![m] = Validate(m, request[1][m])]
  /\ UNCHANGED ingest
  /\ UNCHANGED <<uiVars, runVars, netVars>>

\* the caller's deadline passes: what is still pending is a Timeout
deadline ==
  /\ pc = "fetch"
  /\ \E m \in Modalities : outcome[m] = "pending"
  /\ outcome' = [m \in Modalities |->
                   IF outcome[m] = "pending" THEN "Timeout" ELSE outcome[m]]
  /\ UNCHANGED ingest
  /\ UNCHANGED <<uiVars, runVars, netVars>>

\* the three outcomes are joined and the cross-checks run
join ==
  /\ pc = "fetch"
  /\ ingest.kind = "none"
  /\ \A m \in Modalities : outcome[m] # "pending"
  /\ ingest' = Join(outcome, request[1])
  /\ UNCHANGED outcome
  /\ UNCHANGED <<uiVars, runVars, netVars>>

\* the user dismisses the alert
dismissAlert ==
  /\ alert # NoAlert
  /\ alert' = NoAlert
  /\ UNCHANGED <<activeTab, uploadedFiles, processingStatus, results, modelConfig>>
  /\ UNCHANGED <<runVars, netVars, backendVars>>

Next ==
  \/ dismissAlert
  \/ setActiveTab
  \/ handleFileUpload
  \/ removeFile
  \/ setModelConfig
  \/ simulateProcessing
  \/ stageTimer
  \/ importResolves
  \/ importRejects
  \/ fetchResolves
  \/ fetchResolvesOther
  \/ fetchNotOk
  \/ fetchRejects
  \/ timeoutFires
  \/ jsonRejects
  \/ jsonResolves
  \/ validate
  \/ deadline
  \/ join

Spec == Init /\ [][Next]_vars

\* What the scheduling guarantees: a timer that is set fires (the 500 ms
\* timers of the stage loop, the 5-minute timer of predictSeizure unless it
\* is cleared first) and the import of the API module settles.  Nothing
\* makes the network answer, nor the body of an answer arrive.
Fairness ==
  /\ WF_vars(stageTimer)
  /\ WF_vars(importResolves \/ importRejects)
  /\ WF_vars(timeoutFires)

LiveSpec == Spec /\ Fairness

(* ------------------------------------------------------------------ *)
(* Helpers of the properties                                           *)
(* ------------------------------------------------------------------ *)

\* the request was answered by the pipeline with an error report
ReportArrived ==
  /\ response.kind \in {"headers", "json"}
  /\ response.body.error # <<>>
  /\ response.body.prediction = <<>>

\* the request was answered with a prediction and no error field
PredictionArrived ==
  /\ response.kind \in {"headers", "json"}
  /\ response.body.error = <<>>
  /\ response.body.prediction # <<>>
  /\ response.body.prediction[1].seizure_probability # <<>>

\* the kinds of failure a report can name for a modality
Failing(kind) == kind \in ErrorKinds

(* ------------------------------------------------------------------ *)
(* C1                                                                  *)
(* ------------------------------------------------------------------ *)

CompleteResult(r) ==
  /\ r.prediction \in {"Seizure Risk", "Normal"}
  /\ r.confidence # <<>>
  /\ r.confidence[1] \in Probabilities
  /\ r.details.mriScore \in Scores
  /\ r.details.fmriScore \in Scores
  /\ r.details.eegScore \in Scores

C3_ResultOnlyAfterSuccess ==
  /\ results # <<>> =>
       /\ \A m \in Modalities : closure[m] # <<>>
       /\ i = Len(stages)
       /\ sent = 1
       /\ pc = "done"
       /\ processingStatus.status = "completed"
       /\ response.kind = "json"
       /\ response.body.error = <<>>
       /\ response.body.prediction # <<>>
       /\ response.body.prediction[1].seizure_probability # <<>>
       /\ \A m \in Modalities : Validate(m, request[1][m]) = "Valid"
       /\ SpatialOk(request[1])
  /\ processingStatus.status = "error" => results = <<>>

\* C3 witness: a result is visible on the results tab
C3_Witness ==
  /\ activeTab = "results"
  /\ Len(results) > 0
  /\ results[1].prediction = "Normal"

(* ------------------------------------------------------------------ *)
(* C4                                                                  *)
(* ------------------------------------------------------------------ *)

\* C4 (as claimed): every listed file and every file sent to /predict has
\* an extension of its modality's allowed set.
C4_OnlyAllowedFormats ==
  /\ \A m \in Modalities :
       \A k \in 1..Len(uploadedFiles[m]) :
         uploadedFiles[m][k].file.ext \in Allowed(m)
  /\ request # <<>> =>
       \A m \in Modalities : request[1][m].ext \in Allowed(m)

(* ------------------------------------------------------------------ *)
(* C5                                                                  *)
(* ------------------------------------------------------------------ *)

\* C5 (as claimed): when the deadline passes while a modality is still
\* being processed, the caller is told of a Timeout of that modality and of
\* the outcomes of the modalities that were done.
C5_TimeoutNamesModality ==
  [][ ( /\ response.kind = "none"
        /\ response'.kind = "timeout"
        /\ Cardinality({m \in Modalities : outcome[m] = "pending"}) = 1 ) =>
        /\ alert'.detail # <<>>
        /\ \A m \in Modalities :
             alert'.detail[1].modality[m] =
               IF outcome[m] = "pending" THEN "Timeout" ELSE outcome[m] ]_vars

(* ------------------------------------------------------------------ *)
(* C6                                                                  *)
(* ------------------------------------------------------------------ *)

\* C6: at most one POST /predict is ever sent, it is sent only past the
\* last stage, and once the analysis is over (by result or by any failure)
\* no request is in preparation.
C6_NoRetry ==
  /\ sent <= 1
  /\ sent = 1 <=> request # <<>>
  /\ sent = 1 => pc \in {"fetch", "json", "done"}
  /\ processingStatus.status \in {"error", "completed"} => pc = "done" /\ ~timer

\* C6 witness: a request was sent, it failed, and nothing more is pending
C6_Witness ==
  /\ sent = 1
  /\ pc = "done"
  /\ processingStatus.status = "error"
  /\ response.kind \in {"http_error", "network_error", "timeout", "parse_error"}
  /\ alert = NoAlert

(* ------------------------------------------------------------------ *)
(* C7                                                                  *)
(* ------------------------------------------------------------------ *)

\* the values the details of a result can take
ScoreTriples == [mriScore : Scores, fmriScore : Scores, eegScore : Scores]

\* C7 (as claimed): with the same files and the same answer of the backend,
\* any two runs of the handler store the same result.
C7_Deterministic ==
  pc = "json" =>
    \A a \in ScoreTriples, b \in ScoreTriples :
      ( /\ ENABLED (jsonResolves /\ Len(results') = 1 /\ results'[1].details = a)
        /\ ENABLED (jsonResolves /\ Len(results') = 1 /\ results'[1].details = b) )
      => a = b

(* ------------------------------------------------------------------ *)
(* C8                                                                  *)
(* ------------------------------------------------------------------ *)

\* the MRI and the fMRI file of the request differ in in-plane resolution
ResolutionsDiffer == request # <<>> /\ request[1].mri.res # request[1].fmri.res

DurationsImbalanced ==
  /\ request # <<>>
  /\ \/ request[1].fmri.dur > 10 * request[1].eeg.dur
     \/ request[1].eeg.dur > 10 * request[1].fmri.dur

C10_SuccessCompletes ==
  [][ ( /\ pc = "json"
        /\ response'.kind = "json"
        /\ response.body.error = <<>>
        /\ response.body.prediction # <<>>
        /\ response.body.prediction[1].seizure_probability # <<>> ) =>
      ( /\ pc' = "done"
        /\ processingStatus'.status = "completed"
        /\ processingStatus'.progress = 1000
        /\ Len(results') = 1
        /\ results'[1].confidence = response.body.prediction[1].seizure_probability
        /\ activeTab' = "results"
        /\ alert' = NoAlert
        /\ uploadedFiles' = uploadedFiles ) ]_vars

\* C10 witness: the reference recording was analysed, the analysis is
\* complete and the results tab shows it
C10_Witness ==
  /\ pc = "done"
  /\ request = <<Reference>>
  /\ processingStatus = CompleteStatus
  /\ Len(results) = 1
  /\ results[1].prediction = "Seizure Risk"
  /\ activeTab = "results"

(* ------------------------------------------------------------------ *)
(* C11                                                                 *)
(* ------------------------------------------------------------------ *)

\* C11: the request carries exactly the three parts eeg, mri and fmri, each
\* the file of the entry that was first in its modality's list when Begin
\* Analysis was clicked: the click captures those entries, no later step
\* (uploads and removals during the stages included) changes what was
\* captured, the request is built from it, and a request once sent is not
\* altered.
C11_SendsFirstAtClick ==
  /\ [](request # <<>> =>
         /\ DOMAIN request[1] = Modalities
         /\ \A m \in Modalities :
              /\ closure[m] # <<>>
              /\ request[1][m] = closure[m][1].file)
  /\ [][ /\ (pc = "idle" /\ pc' # "idle") =>
               \A m \in Modalities :
                 /\ Len(uploadedFiles[m]) > 0
                 /\ closure'[m] = <<uploadedFiles[m][1]>>
         /\ pc # "idle" => closure' = closure
         /\ request # <<>> => request' = request ]_vars

\* C11 witness: a request is in flight whose MRI part is the file that was
\* first at the click, while the MRI list by now holds two other files
C11_Witness ==
  /\ pc = "fetch"
  /\ request # <<>>
  /\ request[1].mri = closure.mri[1].file
  /\ Len(uploadedFiles.mri) = 2
  /\ uploadedFiles.mri[1].file # request[1].mri
  /\ uploadedFiles.mri[2].file # request[1].mri
  /\ uploadedFiles.mri[1] # uploadedFiles.mri[2]

(* ------------------------------------------------------------------ *)
(* C12                                                                 *)
(* ------------------------------------------------------------------ *)

\* C12: a click on Begin Analysis while one of the three lists is empty
\* raises the 'Please upload all required files' alert and nothing else: the
\* status stays 'idle', processingStatus, results, activeTab and the lists
\* are unchanged, no stage starts, no timer is set and no request is sent.
C12_MissingFilesNoOp ==
  [][ ( /\ simulateProcessing
        /\ \E m \in Modalities : Len(uploadedFiles[m]) = 0 ) =>
      ( /\ alert' = UploadAlert
        /\ processingStatus.status = "idle"
        /\ processingStatus' = processingStatus
        /\ results' = results
        /\ activeTab' = activeTab
        /\ uploadedFiles' = uploadedFiles
        /\ pc' = pc
        /\ closure' = closure
        /\ sent' = sent
        /\ request' = request
        /\ timer' = timer ) ]_vars

\* C12 witness: the alert is on screen after a click with the MRI and the
\* EEG list filled and the fMRI list empty
C12_Witness ==
  /\ alert = UploadAlert
  /\ Len(uploadedFiles.mri) > 0
  /\ Len(uploadedFiles.eeg) > 0
  /\ Len(uploadedFiles.fmri) = 0
  /\ processingStatus.status = "idle"
  /\ activeTab = "process"
  /\ sent = 0

(* ------------------------------------------------------------------ *)
(* C13                                                                 *)
(* ------------------------------------------------------------------ *)

\* C13 (as claimed): every analysis in status 'processing' eventually
\* reaches 'completed' or 'error', the 5-minute timer ending any call that
\* has not completed.
C13_EventuallySettles ==
  (processingStatus.status = "processing")
    ~> (processingStatus.status \in {"completed", "error"})

\* the part of C13 that the timer does cover: a call that awaits the
\* answer's headers leaves that wait, and a settled call holds no timer
FetchWaitEnds ==
  /\ (pc = "fetch") ~> (pc # "fetch")
  /\ [](pc = "done" => ~timer)

(* ------------------------------------------------------------------ *)
(* C14                                                                 *)
(* ------------------------------------------------------------------ *)

\* the kinds of a call that settled by a thrown error
ThrownKinds ==
  {"import_error", "http_error", "network_error", "timeout", "parse_error"}

\* the step in which the analysis fails: the call settles by an error, or
\* its answer holds an error field or no prediction.seizure_probability
FailureStep ==
  \/ /\ response'.kind # response.kind
     /\ response'.kind \in ThrownKinds
  \/ /\ response.kind = "headers"
     /\ response'.kind = "json"
     /\ \/ response.body.error # <<>>
        \/ response.body.prediction = <<>>
        \/ response.body.prediction[1].seizure_probability = <<>>

\* a step of the analysis itself (not of the user, nor of the backend)
AnalysisStep == pc' # pc \/ i' # i

\* C14: the step in which an analysis fails, by an error field, a missing
\* seizure_probability, a non-2xx status, a network failure, a timeout, an
\* unreadable body or a failed import, sets status 'error' and progress 0
\* and ends the analysis without touching results, activeTab or the upload
\* lists; no step of the analysis before it touched them either, so they
\* are as the user left them; status 'error' always shows progress 0 and
\* no result.
C14_FailureLeavesState ==
  /\ [][ FailureStep =>
           /\ processingStatus'.status = "error"
           /\ processingStatus'.progress = 0
           /\ pc' = "done"
           /\ results' = results
           /\ activeTab' = activeTab
           /\ uploadedFiles' = uploadedFiles ]_vars
  /\ [][ (AnalysisStep /\ processingStatus'.status # "completed") =>
           /\ results' = results
           /\ activeTab' = activeTab
           /\ uploadedFiles' = uploadedFiles ]_vars
  /\ [](processingStatus.status = "error" =>
         /\ processingStatus.progress = 0
         /\ results = <<>>
         /\ pc = "done")

\* C14 witness: the timer ended the call while the user was on the
\* configuration tab with two MRI files listed
C14_Witness ==
  /\ pc = "done"
  /\ response.kind = "timeout"
  /\ processingStatus = ErrorStatus
  /\ alert # NoAlert
  /\ activeTab = "config"
  /\ Len(uploadedFiles.mri) = 2
  /\ results = <<>>

(* ------------------------------------------------------------------ *)
(* C15                                                                 *)
(* ------------------------------------------------------------------ *)

\* the number (1..8) of the stage on show while the loop variable is i
Shown == IF i < Len(stages) THEN i + 1 ELSE Len(stages)

\* C15: progress is within 0..100 %; 'idle' and 'error' show 0 %;
\* 'processing' shows the stage the loop has reached with (i+1)/8 of 100 %;
\* 'completed' shows 100 % and 'Analysis Complete'; while the status stays
\* 'processing' the progress never decreases and each change of stage is a
\* step to the next stage with a higher progress; the request is sent only
\* when the last stage is on show.
C15_ProgressConsistent ==
  /\ [] /\ processingStatus.progress \in 0..1000
        /\ processingStatus.status = "idle" =>
             /\ processingStatus.progress = 0
             /\ pc = "idle"
        /\ processingStatus.status = "error" => processingStatus.progress = 0
        /\ processingStatus.status = "completed" =>
             /\ processingStatus.progress = 1000
             /\ processingStatus.stage = "Analysis Complete"
        /\ processingStatus.status = "processing" =>
             /\ processingStatus.stage = stages[Shown]
             /\ processingStatus.progress * Len(stages) = Shown * 1000
        /\ sent > 0 => i = Len(stages)
  /\ [][ ( /\ processingStatus.status = "processing"
            /\ processingStatus'.status = "processing" ) =>
          ( /\ processingStatus'.progress >= processingStatus.progress
            /\ processingStatus'.stage # processingStatus.stage =>
                 /\ processingStatus'.progress > processingStatus.progress
                 /\ \E k \in 1..(Len(stages) - 1) :
                      /\ processingStatus.stage = stages[k]
                      /\ processingStatus'.stage = stages[k + 1] ) ]_vars
  /\ [][ sent' # sent =>
          /\ processingStatus.stage = stages[Len(stages)]
          /\ processingStatus.progress = 1000
          /\ processingStatus' = processingStatus ]_vars

\* C15 witness: the fifth stage is on show at 62.5 %
C15_Witness ==
  /\ pc = "stage"
  /\ i = 4
  /\ processingStatus.status = "processing"
  /\ processingStatus.stage = "Performing multi-modal data fusion..."
  /\ processingStatus.progress = 625

(* ------------------------------------------------------------------ *)
(* C16                                                                 *)
(* ------------------------------------------------------------------ *)

\* what 'Model Configuration Used' on the results tab renders for the
\* result on show: the fields of the current modelConfig
ConfigShown == modelConfig

\* C16 (as claimed): once a result is on show, the configuration displayed
\* as used for it does not change.
C16_ShownConfigFixed ==
  [][ (results # <<>> /\ results' = results) => ConfigShown' = ConfigShown ]_vars

(* ------------------------------------------------------------------ *)
(* C17                                                                 *)
(* ------------------------------------------------------------------ *)

\* C17: the status leaves 'idle' only by a click on Begin Analysis with
\* the three lists filled, and then for 'processing'; from 'processing'
\* it goes to 'completed' or 'error' only, and these two are final; it
\* never returns to 'idle'.  An analysis once started is never started
\* again: outside 'idle' a click on Begin Analysis is impossible, at most
\* one request is ever sent and at most one is in flight.
C17_OneWayStatus ==
  /\ [][ /\ ( /\ processingStatus.status = "idle"
               /\ processingStatus'.status # "idle" ) =>
               /\ \A m \in Modalities : Len(uploadedFiles[m]) > 0
               /\ activeTab = "process"
               /\ processingStatus'.status = "processing"
               /\ pc = "idle" /\ pc' = "stage"
               /\ sent = 0
         /\ processingStatus.status # "idle" => processingStatus'.status # "idle"
         /\ processingStatus.status = "processing" =>
               processingStatus'.status \in {"processing", "completed", "error"}
         /\ processingStatus.status \in {"completed", "error"} =>
               processingStatus' = processingStatus
         /\ pc # "idle" => pc' # "idle"
         /\ sent' \in {sent, sent + 1} ]_vars
  /\ [] /\ processingStatus.status = "idle" <=> pc = "idle"
        /\ processingStatus.status # "idle" => ~ENABLED simulateProcessing
        /\ sent <= 1
        /\ timer => (sent = 1 /\ pc = "fetch")

\* C17 witness: after a failure the user is back on the process tab with
\* the three lists filled and no alert in the way; only the status keeps
\* a new analysis from being started
C17_Witness ==
  /\ processingStatus.status = "error"
  /\ pc = "done"
  /\ sent = 1
  /\ activeTab = "process"
  /\ alert = NoAlert
  /\ \A m \in Modalities : Len(uploadedFiles[m]) > 0

(* ------------------------------------------------------------------ *)
(* C18                                                                 *)
(* ------------------------------------------------------------------ *)

\* the step leaves everything but the upload lists as it was
OnlyListsChange ==
  /\ processingStatus' = processingStatus
  /\ results' = results
  /\ activeTab' = activeTab
  /\ modelConfig' = modelConfig
  /\ alert' = alert
  /\ pc' = pc /\ closure' = closure /\ request' = request /\ sent' = sent

\* list new is list old with entries for files picked from the input of
\* modality type added at its end
Appended(old, new, type) ==
  /\ Len(new) > Len(old)
  /\ SubSeq(new, 1, Len(old)) = old
  /\ \A k \in (Len(old) + 1)..Len(new) :
       /\ new[k].file \in disk[type]
       /\ new[k].name = new[k].file.name
       /\ new[k].status = "uploaded"

\* list new is list old without the entry at one index
Removed(old, new) ==
  \E index \in 0..(Len(old) - 1) :
    new = SubSeq(old, 1, index) \o SubSeq(old, index + 2, Len(old))

\* list without the entry at index (counted from 0)
Without(list, index) ==
  SubSeq(list, 1, index) \o SubSeq(list, index + 2, Len(list))

\* C18: a step that changes the upload lists changes one list only, either
\* by adding entries at its end, the entries already there staying as and
\* where they are, or by taking one entry out and keeping the rest in
\* order, and it leaves processingStatus, results and activeTab alone (no
\* other step changes a list or an entry; handleFileUpload with null files
\* changes nothing).  On the upload tab removeFile(type, index) can be
\* called for every index and yields the list without exactly that entry,
\* and handleFileUpload(type, [f]) yields the list with f's entry at the end.
C18_ListsIndependent ==
  /\ [][ uploadedFiles' # uploadedFiles =>
           /\ OnlyListsChange
           /\ \E type \in Modalities :
                /\ \/ Appended(uploadedFiles[type], uploadedFiles'[type], type)
                   \/ Removed(uploadedFiles[type], uploadedFiles'[type])
                /\ \A m \in Modalities \ {type} :
                     uploadedFiles'[m] = uploadedFiles[m] ]_vars
  /\ [] ( (alert = NoAlert /\ activeTab = "upload") =>
            \A type \in Modalities :
              /\ \A index \in 0..(Len(uploadedFiles[type]) - 1) :
                   ENABLED ( /\ removeFile
                             /\ uploadedFiles'[type] =
                                  Without(uploadedFiles[type], index) )
              /\ Len(uploadedFiles[type]) < MaxFiles =>
                   \A f \in disk[type] :
                     ENABLED ( /\ handleFileUpload
                               /\ uploadedFiles'[type] =
                                    Append(uploadedFiles[type],
                                           [name |-> f.name, status |-> "uploaded",
                                            file |-> f]) ) )

\* C18 witness: while an analysis runs, the MRI list holds two different
\* files in the order of their upload next to a one-entry EEG list
C18_Witness ==
  /\ processingStatus.status = "processing"
  /\ Len(uploadedFiles.mri) = 2
  /\ uploadedFiles.mri[1].name = "t1.dcm"
  /\ uploadedFiles.mri[2].name = "t1.nii"
  /\ Len(uploadedFiles.eeg) = 1
  /\ Len(uploadedFiles.fmri) = 0
====
